---- MODULE Spec2Model ----
(***************************************************************************)
(* Model of quiz1.RunQuiz1 (src/quiz1/quiz1.go): the timed quiz.  The main *)
(* goroutine loads the problems, arms one timer and, for every problem,    *)
(* prints the question, starts a goroutine that scans one answer from      *)
(* standard input and selects between the timer and that goroutine's       *)
(* unbuffered channel.                                                     *)
(*                                                                         *)
(* Time is a discrete clock.  Program steps take no time: the clock only   *)
(* advances when no goroutine can step and no timer or input event is due. *)
(* Text is a sequence of one-character strings.                            *)
(***************************************************************************)
EXTENDS Integers, Sequences, FiniteSets, TLC

\* ---------------------------------------------------------------- bounds
MaxProblems == 2
MaxLines == 2
MaxTime == 2
MaxLimit == 2
MaxRuns == 2

\* Raw answer columns of the CSV rows and the lines typed on standard input.
Fields == { <<"4">>, <<"A", " ">>, <<>>, <<"4", " ", "6">> }
Lines == { <<"4">>, <<"a">>, <<" ", "4", " ">>, <<"4", " ", "6">> }
EOF == <<"EOF">>
NoTimer == -1

VARIABLES
    file,          \* what os.Open / ReadAll will find: "missing", "malformed",
                   \* "onecolumn" (rows of a single field), "ok"
    rows,          \* the answer column of the CSV rows, untrimmed
    limit,         \* the -limit flag
    plan,          \* the input schedule: <<[at, line]>>, EOF closes the stream
    pc,            \* position of the main goroutine
    problems,      \* expected answers after parseLines
    timerAt,       \* clock value at which the timer fires, NoTimer before NewTimer
    timersCreated, \* number of NewTimer calls
    timerC,        \* number of values buffered in timer.C (0 or 1)
    timerFired,    \* the runtime has fired the timer
    cur,           \* loop index i, 1-based
    correct,
    recv,          \* the value received in "case answer := <-answerCh"
    tasks,         \* the answer goroutines, one per question
    answerCh,      \* the channel of the current iteration, 0 before the first
    chanUse,       \* per channel made: values sent, values received, senders
    stdinBuf,      \* bytes available on standard input, not yet read
    stdinEOF,      \* standard input is closed
    nextIn,        \* next item of plan to arrive
    clock,
    displayed,     \* questions printed, in order
    evaluated,     \* questions whose answer was compared, in order
    scored,        \* questions counted as correct
    timedOut,      \* the select took the timer case
    expiredAtWait, \* questions whose select was entered with timer.C ready
    diag,          \* number of "Failed to scan input!" lines printed
    report,        \* <<correct, total>> printed at the end, <<>> before
    lastReport,    \* report of the previous run of the program
    runs

vars == << file, rows, limit, plan, pc, problems, timerAt, timersCreated, timerC,
           timerFired, cur, correct, recv, tasks, stdinBuf, stdinEOF, nextIn,
           clock, displayed, evaluated, scored, timedOut, expiredAtWait, diag,
           report, lastReport, runs, answerCh, chanUse >>

inputVars == << file, rows, limit, plan >>
timerVars == << timerAt, timersCreated, timerC, timerFired >>
stdinVars == << stdinBuf, stdinEOF, nextIn >>
ghostVars == << displayed, evaluated, scored, timedOut, expiredAtWait, diag >>
runVars == << lastReport, runs >>
chanVars == << answerCh, chanUse >>

\* ------------------------------------------------------- pure functions
SeqsUpTo(S, n) == UNION { [1..k -> S] : k \in 0..n }

Space == { " ", "\t", "\r", "\n" }
Blank == Space \ { "\n" }

RECURSIVE TrimLeft(_)
TrimLeft(s) == IF s # <<>> /\ Head(s) \in Space THEN TrimLeft(Tail(s)) ELSE s

RECURSIVE TrimRight(_)
TrimRight(s) ==
    IF s # <<>> /\ s[Len(s)] \in Space THEN TrimRight(SubSeq(s, 1, Len(s) - 1)) ELSE s

\* strings.TrimSpace
TrimSpace(s) == TrimRight(TrimLeft(s))

\* parseLines: the answer column of every row, trimmed
parseLines(lines) == [ i \in 1..Len(lines) |-> TrimSpace(lines[i]) ]

\* Leading spaces other than newline, which a scan skips.
RECURSIVE SkipBlanks(_)
SkipBlanks(b) == IF b # <<>> /\ Head(b) \in Blank THEN SkipBlanks(Tail(b)) ELSE b

\* The token %s reads: the longest prefix without a space character.
RECURSIVE Token(_)
Token(b) == IF b = <<>> \/ Head(b) \in Space THEN <<>> ELSE <<Head(b)>> \o Token(Tail(b))

\* The text before the first newline.
RECURSIVE UpToNewline(_)
UpToNewline(b) ==
    IF b = <<>> \/ Head(b) = "\n" THEN <<>> ELSE <<Head(b)>> \o UpToNewline(Tail(b))

\* A read of the whole line, kept as typed: no blank is dropped.
ScanfRawLine(b) ==
    IF b = <<>> THEN [answer |-> <<>>, err |-> TRUE, rest |-> <<>>]
    ELSE LET l == UpToNewline(b) IN
         [answer |-> l, err |-> FALSE, rest |-> SubSeq(b, Len(l) + 2, Len(b))]

\* fmt.Scanf("%s\n", &answer) on the unread input b (b empty: end of stream).
\* answer is what the call has stored, err whether it returned an error, rest
\* the input it has not consumed.
Scanf(b) ==
    LET b1 == SkipBlanks(b) IN
    IF b1 = <<>> THEN [answer |-> <<>>, err |-> TRUE, rest |-> <<>>]
    ELSE IF Head(b1) = "\n" THEN [answer |-> <<>>, err |-> TRUE, rest |-> Tail(b1)]
    ELSE LET tok == Token(b1)
             b3 == SkipBlanks(SubSeq(b1, Len(tok) + 1, Len(b1)))
         IN  IF b3 = <<>> THEN [answer |-> tok, err |-> FALSE, rest |-> <<>>]
             ELSE [answer |-> tok, err |-> Head(b3) # "\n", rest |-> Tail(b3)]

\* ------------------------------------------------------------------ Init
NoTask == [st |-> "none", answer |-> <<>>, err |-> FALSE, ch |-> 0]

NewChan == [sent |-> 0, rcvd |-> 0, writers |-> {}]

Sorted(p) == \A k \in 1..(Len(p) - 1) : p[k].at <= p[k + 1].at /\ p[k].line # EOF

Plans == { p \in SeqsUpTo([at : 0..MaxTime, line : Lines \cup {EOF}], MaxLines) : Sorted(p) }

Start ==
    /\ pc = "open"
    /\ problems = <<>>
    /\ timerAt = NoTimer
    /\ timersCreated = 0
    /\ timerC = 0
    /\ timerFired = FALSE
    /\ cur = 0
    /\ correct = 0
    /\ recv = <<>>
    /\ tasks = [i \in 1..MaxProblems |-> NoTask]
    /\ answerCh = 0
    /\ chanUse = <<>>
    /\ stdinBuf = <<>>
    /\ stdinEOF = FALSE
    /\ nextIn = 1
    /\ clock = 0
    /\ displayed = <<>>
    /\ evaluated = <<>>
    /\ scored = {}
    /\ timedOut = FALSE
    /\ expiredAtWait = {}
    /\ diag = 0
    /\ report = <<>>

Init ==
    /\ file \in {"missing", "malformed", "onecolumn", "ok"}
    /\ rows \in SeqsUpTo(Fields, MaxProblems)
    /\ limit \in 0..MaxLimit
    /\ plan \in Plans
    /\ file # "ok" => rows = <<>> /\ limit = 0 /\ plan = <<>>
    /\ Start
    /\ lastReport = <<>>
    /\ runs = 1

\* ------------------------------------------------------- main goroutine
\* os.Open and the exit on its error
Open ==
    /\ pc = "open"
    /\ pc' = IF file = "missing" THEN "exit" ELSE "parse"
    /\ UNCHANGED << inputVars, problems, timerVars, cur, correct, recv, tasks,
                    stdinVars, clock, ghostVars, report, runVars, chanVars >>

\* csv ReadAll, the exit on its error, parseLines.  Rows of a single field
\* pass ReadAll and make parseLines panic at line[1].
ReadAll ==
    /\ pc = "parse"
    /\ IF file = "malformed"
          THEN pc' = "exit" /\ UNCHANGED problems
          ELSE IF file = "onecolumn"
                  THEN pc' = "panic" /\ UNCHANGED problems
                  ELSE pc' = "timer" /\ problems' = parseLines(rows)
    /\ UNCHANGED << inputVars, timerVars, cur, correct, recv, tasks, stdinVars,
                    clock, ghostVars, report, runVars, chanVars >>

\* timer := time.NewTimer(limit); correct := 0
NewTimer ==
    /\ pc = "timer"
    /\ timerAt' = clock + limit
    /\ timersCreated' = timersCreated + 1
    /\ timerC' = 0
    /\ timerFired' = FALSE
    /\ correct' = 0
    /\ cur' = 1
    /\ pc' = "loop"
    /\ UNCHANGED << inputVars, problems, recv, tasks, stdinVars, clock, ghostVars,
                    report, runVars, chanVars >>

\* The head of one iteration: the range test, the prompt, make(chan string)
\* and the go statement.  The loop creates a timer of its own per question.
LoopPerQuestionTimer ==
    /\ pc = "loop"
    /\ IF cur <= Len(problems)
          THEN /\ displayed' = Append(displayed, cur)
               /\ chanUse' = Append(chanUse, NewChan)
               /\ answerCh' = Len(chanUse) + 1
               /\ tasks' = [tasks EXCEPT ![cur] =
                                [NoTask EXCEPT !.st = "scan", !.ch = Len(chanUse) + 1]]
               /\ timerAt' = clock + limit
               /\ timersCreated' = timersCreated + 1
               /\ timerC' = 0
               /\ timerFired' = FALSE
               /\ pc' = "select"
          ELSE /\ pc' = "report"
               /\ UNCHANGED << displayed, tasks, timerVars, chanVars >>
    /\ UNCHANGED << inputVars, problems, cur, correct, recv, stdinVars, clock,
                    evaluated, scored, timedOut, expiredAtWait, diag, report, runVars >>

\* The head of one iteration, with the channel made once, before the loop:
\* every goroutine sends on the same channel.
LoopSharedChannel ==
    /\ pc = "loop"
    /\ IF cur <= Len(problems)
          THEN /\ displayed' = Append(displayed, cur)
               /\ chanUse' = IF chanUse = <<>> THEN <<NewChan>> ELSE chanUse
               /\ answerCh' = 1
               /\ tasks' = [tasks EXCEPT ![cur] = [NoTask EXCEPT !.st = "scan", !.ch = 1]]
               /\ pc' = "select"
          ELSE /\ pc' = "report"
               /\ UNCHANGED << displayed, tasks, chanVars >>
    /\ UNCHANGED << inputVars, problems, timerVars, cur, correct, recv, stdinVars,
                    clock, evaluated, scored, timedOut, expiredAtWait, diag, report,
                    runVars >>

\* The head of one iteration: the range test, the prompt, make(chan string)
\* and the go statement.
Loop ==
    /\ pc = "loop"
    /\ IF cur <= Len(problems)
          THEN /\ displayed' = Append(displayed, cur)
               /\ chanUse' = Append(chanUse, NewChan)
               /\ answerCh' = Len(chanUse) + 1
               /\ tasks' = [tasks EXCEPT ![cur] =
                                [NoTask EXCEPT !.st = "scan", !.ch = Len(chanUse) + 1]]
               /\ pc' = "select"
          ELSE /\ pc' = "report"
               /\ UNCHANGED << displayed, tasks, chanVars >>
    /\ UNCHANGED << inputVars, problems, timerVars, cur, correct, recv, stdinVars,
                    clock, evaluated, scored, timedOut, expiredAtWait, diag, report,
                    runVars >>

\* The select statement is entered: one of the cases that can proceed is
\* chosen, and with none the goroutine blocks on both channels.
TimerReady == timerC = 1

\* Goroutine i is at its send on the channel the main goroutine selects on.
Sender(i) == tasks[i].st = "send" /\ tasks[i].ch = answerCh

AnswerReady == \E i \in 1..MaxProblems : Sender(i)

\* The rendezvous on answerCh: the value of goroutine i passes to the main
\* goroutine and the goroutine ends.
Deliver(i) ==
    /\ recv' = tasks[i].answer
    /\ tasks' = [tasks EXCEPT ![i].st = "done"]
    /\ chanUse' = [chanUse EXCEPT ![answerCh] =
                      [sent |-> @.sent + 1, rcvd |-> @.rcvd + 1, writers |-> @.writers \cup {i}]]

\* The select with a default case: with no case ready the loop goes on to
\* the next question instead of blocking.
SelectPollDefault ==
    /\ pc = "select"
    /\ expiredAtWait' = IF TimerReady THEN expiredAtWait \cup {cur} ELSE expiredAtWait
    /\ \/ /\ TimerReady
          /\ timerC' = 0
          /\ pc' = "case_timer"
          /\ UNCHANGED << recv, tasks, chanUse, cur >>
       \/ /\ \E i \in 1..MaxProblems : Sender(i) /\ Deliver(i)
          /\ pc' = "case_answer"
          /\ UNCHANGED << timerC, cur >>
       \/ /\ ~TimerReady /\ ~AnswerReady
          /\ cur' = cur + 1
          /\ pc' = "loop"
          /\ UNCHANGED << recv, tasks, timerC, chanUse >>
    /\ UNCHANGED << inputVars, problems, timerAt, timersCreated, timerFired,
                    correct, stdinVars, clock, displayed, evaluated, scored, timedOut,
                    diag, report, runVars, answerCh >>

SelectPoll ==
    /\ pc = "select"
    /\ expiredAtWait' = IF TimerReady THEN expiredAtWait \cup {cur} ELSE expiredAtWait
    /\ \/ /\ TimerReady
          /\ timerC' = 0
          /\ pc' = "case_timer"
          /\ UNCHANGED << recv, tasks, chanUse >>
       \/ /\ \E i \in 1..MaxProblems : Sender(i) /\ Deliver(i)
          /\ pc' = "case_answer"
          /\ UNCHANGED timerC
       \/ /\ ~TimerReady /\ ~AnswerReady
          /\ pc' = "blocked"
          /\ UNCHANGED << recv, tasks, timerC, chanUse >>
    /\ UNCHANGED << inputVars, problems, timerAt, timersCreated, timerFired, cur,
                    correct, stdinVars, clock, displayed, evaluated, scored, timedOut,
                    diag, report, runVars, answerCh >>

\* case <-timer.C: the break leaves the select only, the loop goes on
CaseTimerPlainBreak ==
    /\ pc = "case_timer"
    /\ timedOut' = TRUE
    /\ cur' = cur + 1
    /\ pc' = "loop"
    /\ UNCHANGED << inputVars, problems, timerVars, correct, recv, tasks, stdinVars,
                    clock, displayed, evaluated, scored, expiredAtWait, diag, report,
                    runVars, chanVars >>

\* case <-timer.C: the timeout is treated as a failure, exit(...)
CaseTimerExit ==
    /\ pc = "case_timer"
    /\ timedOut' = TRUE
    /\ pc' = "exit"
    /\ UNCHANGED << inputVars, problems, timerVars, cur, correct, recv, tasks,
                    stdinVars, clock, displayed, evaluated, scored, expiredAtWait,
                    diag, report, runVars, chanVars >>

\* case <-timer.C: fmt.Println(); break problemLoop
CaseTimer ==
    /\ pc = "case_timer"
    /\ timedOut' = TRUE
    /\ pc' = "report"
    /\ UNCHANGED << inputVars, problems, timerVars, cur, correct, recv, tasks,
                    stdinVars, clock, displayed, evaluated, scored, expiredAtWait,
                    diag, report, runVars, chanVars >>

\* case answer := <-answerCh: every received answer is counted
CaseAnswerNoCompare ==
    /\ pc = "case_answer"
    /\ evaluated' = Append(evaluated, cur)
    /\ correct' = correct + 1
    /\ scored' = scored \cup {cur}
    /\ cur' = cur + 1
    /\ pc' = "loop"
    /\ UNCHANGED << inputVars, problems, timerVars, recv, tasks, stdinVars, clock,
                    displayed, timedOut, expiredAtWait, diag, report, runVars, chanVars >>

\* Upper-casing, as a case-insensitive comparison would apply it.
UpperChar(c) == IF c = "a" THEN "A" ELSE c
Upper(t) == [k \in 1..Len(t) |-> UpperChar(t[k])]

\* case answer := <-answerCh: the comparison ignores case
CaseAnswerFold ==
    /\ pc = "case_answer"
    /\ evaluated' = Append(evaluated, cur)
    /\ IF Upper(recv) = Upper(problems[cur])
          THEN correct' = correct + 1 /\ scored' = scored \cup {cur}
          ELSE UNCHANGED << correct, scored >>
    /\ cur' = cur + 1
    /\ pc' = "loop"
    /\ UNCHANGED << inputVars, problems, timerVars, recv, tasks, stdinVars, clock,
                    displayed, timedOut, expiredAtWait, diag, report, runVars, chanVars >>

\* case answer := <-answerCh: if answer == p.answer { correct++ }
CaseAnswer ==
    /\ pc = "case_answer"
    /\ evaluated' = Append(evaluated, cur)
    /\ IF recv = problems[cur]
          THEN correct' = correct + 1 /\ scored' = scored \cup {cur}
          ELSE UNCHANGED << correct, scored >>
    /\ cur' = cur + 1
    /\ pc' = "loop"
    /\ UNCHANGED << inputVars, problems, timerVars, recv, tasks, stdinVars, clock,
                    displayed, timedOut, expiredAtWait, diag, report, runVars, chanVars >>

\* The score line reports the number of questions reached as the total
ReportReached ==
    /\ pc = "report"
    /\ report' = << correct, Len(displayed) >>
    /\ pc' = "done"
    /\ UNCHANGED << inputVars, problems, timerVars, cur, correct, recv, tasks,
                    stdinVars, clock, ghostVars, runVars, chanVars >>

\* fmt.Printf("You scored %d out of %d.\n", correct, len(problems))
Report ==
    /\ pc = "report"
    /\ report' = << correct, Len(problems) >>
    /\ pc' = "done"
    /\ UNCHANGED << inputVars, problems, timerVars, cur, correct, recv, tasks,
                    stdinVars, clock, ghostVars, runVars, chanVars >>

\* ----------------------------------------------------- answer goroutines
\* var answer string; fmt.Scanf("%s\n", &answer); the diagnostic on an error.
\* The call returns once a line or the end of the stream is there to read.
TaskScan(i) ==
    /\ tasks[i].st = "scan"
    /\ stdinBuf # <<>> \/ stdinEOF
    /\ LET r == Scanf(stdinBuf) IN
         /\ tasks' = [tasks EXCEPT ![i] = [@ EXCEPT !.st = "send", !.answer = r.answer,
                                                      !.err = r.err]]
         /\ stdinBuf' = r.rest
         /\ diag' = IF r.err THEN diag + 1 ELSE diag
    /\ UNCHANGED << inputVars, pc, problems, timerVars, cur, correct, recv, stdinEOF,
                    nextIn, clock, displayed, evaluated, scored, timedOut,
                    expiredAtWait, report, runVars, chanVars >>

\* answerCh <- answer on a channel with a buffer of one value: the send
\* completes at once and the goroutine ends, with or without a receiver.
TaskSendBuffered(i) ==
    /\ tasks[i].st = "send"
    /\ IF Sender(i) /\ pc = "blocked"
          THEN Deliver(i) /\ pc' = "case_answer"
          ELSE /\ tasks' = [tasks EXCEPT ![i].st = "done"]
               /\ chanUse' = [chanUse EXCEPT ![tasks[i].ch] =
                                 [@ EXCEPT !.sent = @ + 1, !.writers = @ \cup {i}]]
               /\ UNCHANGED << recv, pc >>
    /\ UNCHANGED << inputVars, problems, timerVars, cur, correct, stdinVars, clock,
                    ghostVars, report, runVars, answerCh >>

\* answerCh <- answer on the unbuffered channel: it completes when the main
\* goroutine is blocked in the select of the same question.
TaskSend(i) ==
    /\ Sender(i)
    /\ pc = "blocked"
    /\ Deliver(i)
    /\ pc' = "case_answer"
    /\ UNCHANGED << inputVars, problems, timerVars, cur, correct, stdinVars, clock,
                    ghostVars, report, runVars, answerCh >>

\* ------------------------------------------------------------ environment
TimerDue == timerAt # NoTimer /\ ~timerFired /\ clock >= timerAt

\* The runtime fires the timer: the event goes to the goroutine blocked in the
\* select, or else waits in the buffer of timer.C.
TimerFire ==
    /\ TimerDue
    /\ timerFired' = TRUE
    /\ IF pc = "blocked"
          THEN pc' = "case_timer" /\ UNCHANGED timerC
          ELSE timerC' = 1 /\ UNCHANGED pc
    /\ UNCHANGED << inputVars, problems, timerAt, timersCreated, cur, correct, recv,
                    tasks, stdinVars, clock, ghostVars, report, runVars, chanVars >>

InputDue == nextIn <= Len(plan) /\ plan[nextIn].at <= clock

\* A typed line, or the end of the stream, reaches standard input.
Arrive ==
    /\ InputDue
    /\ nextIn' = nextIn + 1
    /\ IF plan[nextIn].line = EOF
          THEN stdinEOF' = TRUE /\ UNCHANGED stdinBuf
          ELSE stdinBuf' = stdinBuf \o plan[nextIn].line \o <<"\n">> /\ UNCHANGED stdinEOF
    /\ UNCHANGED << inputVars, pc, problems, timerVars, cur, correct, recv, tasks,
                    clock, ghostVars, report, runVars, chanVars >>

MainCanStep ==
    pc \in {"open", "parse", "timer", "loop", "select", "case_timer", "case_answer", "report"}

TaskCanStep ==
    \E i \in 1..MaxProblems :
        \/ tasks[i].st = "scan" /\ (stdinBuf # <<>> \/ stdinEOF)
        \/ Sender(i) /\ pc = "blocked"

\* Time passes when nothing else can happen.
Tick ==
    /\ clock < MaxTime
    /\ ~MainCanStep /\ ~TaskCanStep /\ ~TimerDue /\ ~InputDue
    /\ clock' = clock + 1
    /\ UNCHANGED << inputVars, pc, problems, timerVars, cur, correct, recv, tasks,
                    stdinVars, ghostVars, report, runVars, chanVars >>

\* The program is run again on the same file, flag and timed input.
Rerun ==
    /\ pc = "done"
    /\ runs < MaxRuns
    /\ lastReport' = report
    /\ runs' = runs + 1
    /\ pc' = "open"
    /\ problems' = <<>>
    /\ timerAt' = NoTimer
    /\ timersCreated' = 0
    /\ timerC' = 0
    /\ timerFired' = FALSE
    /\ cur' = 0
    /\ correct' = 0
    /\ recv' = <<>>
    /\ tasks' = [i \in 1..MaxProblems |-> NoTask]
    /\ answerCh' = 0
    /\ chanUse' = <<>>
    /\ stdinBuf' = <<>>
    /\ stdinEOF' = FALSE
    /\ nextIn' = 1
    /\ clock' = 0
    /\ displayed' = <<>>
    /\ evaluated' = <<>>
    /\ scored' = {}
    /\ timedOut' = FALSE
    /\ expiredAtWait' = {}
    /\ diag' = 0
    /\ report' = <<>>
    /\ UNCHANGED inputVars

Next ==
    \/ Open
    \/ ReadAll
    \/ NewTimer
    \/ Loop
    \/ SelectPoll
    \/ CaseTimer
    \/ CaseAnswer
    \/ Report
    \/ \E i \in 1..MaxProblems : TaskScan(i)
    \/ \E i \in 1..MaxProblems : TaskSend(i)
    \/ TimerFire
    \/ Arrive
    \/ Tick

Spec == Init /\ [][Next]_vars

\* The scheduler runs whatever can run: the program never stops while a
\* goroutine can step, the timer is due, input is due or time can pass.
LiveSpec == Spec /\ WF_vars(Next)

\* Repeated runs of the program on the same inputs.
NextRepeat == Next \/ Rerun

SpecRepeat == Init /\ [][NextRepeat]_vars

\* ------------------------------------------------------------ properties
Range(f) == { f[k] : k \in 1..Len(f) }

Total == Len(rows)

\* A typed line that holds exactly one token, possibly padded with blanks.
OneToken(line) ==
    /\ line # EOF
    /\ TrimSpace(line) # <<>>
    /\ Token(TrimSpace(line)) = TrimSpace(line)

\* C1: once the select has taken the timer case the session stops: the
\* current question is never compared, no question is displayed or compared
\* afterwards, the score stays, and the main goroutine goes to the report
\* and nowhere else.
C1_TimeoutStopsSession ==
    [][ (pc = "case_timer" \/ timedOut) =>
            /\ cur \notin Range(evaluated)
            /\ evaluated' = evaluated
            /\ displayed' = displayed
            /\ correct' = correct
            /\ pc' \in (IF timedOut THEN {"report", "done"} ELSE {"case_timer", "report"}) ]_vars

\* C1 witness: the timer case was taken on the first of two questions and
\* the report was printed.
C1_Witness ==
    /\ timedOut
    /\ pc = "done"
    /\ Len(problems) = 2
    /\ displayed = <<1>>

\* C2: a select that is entered when the timer has already fired never
\* hands an answer to the comparison, and no question is displayed after it.
C2_Claim ==
    \A q \in expiredAtWait :
        /\ q \notin Range(evaluated)
        /\ \A k \in Range(displayed) : k <= q

\* C3: with limit = 0, the timer already fired when the first select is
\* entered and at least one problem, exactly the first question is
\* displayed, no answer is compared and the score is 0.
C3_Claim ==
    (limit = 0 /\ problems # <<>> /\ 1 \in expiredAtWait) =>
        /\ displayed = <<1>>
        /\ evaluated = <<>>
        /\ correct = 0
        /\ (report # <<>> => report[1] = 0)

\* C4: when the loop ends without the timer case being taken, every problem
\* was compared exactly once, in order, and the reported score is the number
\* of questions whose delivered answer equals the expected answer; a line
\* holding one token is delivered as that token to the question of its rank,
\* whatever the arrival times of the lines.
C4_AllAnsweredScore ==
    (pc \in {"report", "done"} /\ ~timedOut) =>
        /\ evaluated = [i \in 1..Len(problems) |-> i]
        /\ \A i \in 1..Len(problems) : tasks[i].st = "done"
        /\ correct = Cardinality({ i \in 1..Len(problems) : tasks[i].answer = problems[i] })
        /\ (report # <<>> => report[1] = correct)
        /\ \A i \in 1..Len(problems) :
              (i <= Len(plan) /\ \A k \in 1..i : OneToken(plan[k].line)) =>
                  tasks[i].answer = TrimSpace(plan[i].line)

\* C4 witness: two questions answered at different times before the timer
\* fired, one right and one wrong.
C4_Witness ==
    /\ Len(plan) = 2
    /\ pc = "done"
    /\ ~timedOut
    /\ ~timerFired
    /\ Len(problems) = 2
    /\ correct = 1
    /\ plan[1].at < plan[2].at

\* C5: the score is always between 0 and the number of supplied problems,
\* and the report is (correct, number of supplied problems).
C5_ScoreBounds ==
    /\ 0 <= correct
    /\ correct <= Total
    /\ (report # <<>> => report = << correct, Total >>)

\* C5 witness: a session of two problems ended by the timer on the first
\* question has printed its report.
C5_Witness ==
    /\ report # <<>>
    /\ timedOut
    /\ Total = 2
    /\ Len(displayed) = 1

\* C6: after the timer case was taken no step changes the score, whatever
\* the abandoned goroutine reads and whenever it reaches its send.
C6_AbandonedNeverScores == [][ timedOut => correct' = correct ]_vars

\* C6 witness: after the timeout the abandoned goroutine has read the
\* expected answer, which arrived after the deadline, and is at its send.
C6_Witness ==
    /\ timedOut
    /\ pc = "done"
    /\ plan # <<>>
    /\ plan[1].at > limit
    /\ tasks[cur].st = "send"
    /\ ~tasks[cur].err
    /\ tasks[cur].answer = problems[cur]

\* C7: a question whose read failed is never counted as correct.
C7_Claim == \A i \in scored : ~tasks[i].err

\* C8: a failed read never resolves: its goroutine delivers nothing and the
\* main goroutine does not get past that question.
C8_Claim ==
    \A i \in 1..MaxProblems :
        tasks[i].err => (tasks[i].st # "done" /\ i \notin Range(evaluated) /\ cur <= i)

\* C9: a run on the same problems, timed input and limit as the previous
\* run prints the same report.
C9_Claim == (report # <<>> /\ lastReport # <<>>) => report = lastReport

\* C10: one timer is created, before the first question is displayed, for
\* start + limit, and no step creates another, moves its deadline or
\* un-fires it.
C10_TimerSetOnce ==
    [][ /\ (displayed' # <<>> => (timersCreated' = 1 /\ timerAt' = limit))
        /\ (timersCreated = 1 => (timersCreated' = 1 /\ timerAt' = timerAt))
        /\ (timerFired => timerFired') ]_vars

\* C10 witness: the second question is displayed, later than the first,
\* under the one timer.
C10_Witness ==
    /\ Len(displayed) = 2
    /\ clock >= 1
    /\ timersCreated = 1
    /\ timerAt = limit

\* C11: questions are displayed once each, in list order, and question i+1
\* only after the answer of question i was received and compared: the
\* displayed and the compared questions are initial segments of the list, at
\* most one displayed question is not yet compared, and it is the one the
\* main goroutine is waiting on or handling.
C11_StrictSequence ==
    /\ displayed = [k \in 1..Len(displayed) |-> k]
    /\ evaluated = [k \in 1..Len(evaluated) |-> k]
    /\ Len(evaluated) <= Len(displayed)
    /\ Len(displayed) <= Len(evaluated) + 1
    /\ Len(displayed) <= Len(problems)
    /\ (pc \in {"select", "blocked", "case_timer", "case_answer"} =>
            (Len(displayed) = cur /\ Len(evaluated) = cur - 1))

\* C11 witness: the second question is awaiting its answer after the first
\* was compared, later than the start.
C11_Witness ==
    /\ pc = "blocked"
    /\ displayed = <<1, 2>>
    /\ evaluated = <<1>>
    /\ clock >= 1

\* C12: on every channel made, at most one value is sent and at most one
\* received, only the goroutine of that iteration sends on it and exactly one
\* goroutine holds it.
C12_ChannelUsedOnce ==
    \A c \in 1..Len(chanUse) :
        /\ chanUse[c].sent <= 1
        /\ chanUse[c].rcvd <= 1
        /\ chanUse[c].rcvd <= chanUse[c].sent
        /\ chanUse[c].writers \subseteq {c}
        /\ { i \in 1..MaxProblems : tasks[i].ch = c } = {c}

\* C12 witness: two channels were made and each carried its one value.
C12_Witness ==
    /\ Len(chanUse) = 2
    /\ \A c \in 1..2 : chanUse[c].sent = 1 /\ chanUse[c].rcvd = 1 /\ chanUse[c].writers = {c}

\* C13: every step that changes correct adds exactly 1, is the answer case
\* of the select for the current question, and the received answer, which is
\* the one the goroutine of that question scanned, equals the expected answer
\* character for character.
C13_ScoreOnlyOnMatch ==
    [][ correct' # correct =>
            /\ correct' = correct + 1
            /\ pc = "case_answer"
            /\ recv = problems[cur]
            /\ recv = tasks[cur].answer
            /\ evaluated' = Append(evaluated, cur) ]_vars

\* C13 witness: an answer differing from the expected one only in case was
\* compared and not counted, and the next answer was counted.
C13_Witness ==
    /\ Len(problems) = 2
    /\ evaluated = <<1, 2>>
    /\ problems[1] = <<"A">>
    /\ tasks[1].answer = <<"a">>
    /\ scored = {2}
    /\ correct = 1

\* C14: a session whose problems were loaded always reaches the report
\* (correct, number of problems), with or without input, and a timeout never
\* ends in the failure exit.
C14_ReachesReport ==
    /\ (pc = "timer") ~> (pc = "done" /\ report = << correct, Len(problems) >>)
    /\ [](timedOut => pc \in {"report", "done"})

\* C14 witness: no input ever arrives, the timer ends the wait on the first
\* question and the report is printed.
C14_Witness ==
    /\ plan = <<>>
    /\ problems # <<>>
    /\ timedOut
    /\ pc = "done"
    /\ report = << 0, Len(problems) >>

\* C15: when the problem file cannot be opened, cannot be parsed as rows of
\* two columns or holds no rows, the program ends in its failure exit and
\* never creates the timer, displays a question or prints a score.
C15_Claim ==
    (file # "ok" \/ rows = <<>>) =>
        /\ timersCreated = 0
        /\ displayed = <<>>
        /\ report = <<>>
        /\ pc \in {"open", "parse", "exit", "panic"}

\* C16: at the report every displayed question was either compared or is the
\* one abandoned at the timeout, never both and never twice: the displayed
\* questions are the compared ones plus the abandoned one after a timeout,
\* and all the problems after exhaustion.
C16_OneOutcomeEach ==
    pc \in {"report", "done"} =>
        /\ Len(displayed) = Len(evaluated) + (IF timedOut THEN 1 ELSE 0)
        /\ (~timedOut => Len(displayed) = Len(problems))
        /\ Cardinality(Range(displayed)) = Len(displayed)
        /\ Cardinality(Range(evaluated)) = Len(evaluated)
        /\ \A q \in Range(displayed) :
              (q \in Range(evaluated)) # (timedOut /\ q = cur)

\* C16 witness: the first question was compared, the second abandoned at
\* the timeout, and the report printed.
C16_Witness ==
    /\ pc = "done"
    /\ timedOut
    /\ displayed = <<1, 2>>
    /\ evaluated = <<1>>

\* The first token of a typed line, as %s reads it.
FirstToken(line) == Token(SkipBlanks(line))

\* Question i read the i-th typed line: every earlier line held one token.
InSync(i) ==
    /\ i <= Len(plan)
    /\ plan[i].line # EOF
    /\ \A k \in 1..(i - 1) : OneToken(plan[k].line)

Unfinished == { i \in 1..MaxProblems : tasks[i].st \in {"scan", "send"} }

\* C18: at most one answer goroutine is unfinished, and it is the one of the
\* current question; none is unfinished when the loop starts an iteration,
\* nor at the report of a session that ended by exhaustion.
C18_AtMostOneTask ==
    /\ Cardinality(Unfinished) <= 1
    /\ Unfinished \subseteq {cur}
    /\ (pc = "loop" => Unfinished = {})
    /\ ((pc \in {"report", "done"} /\ ~timedOut) => Unfinished = {})

\* C18 witness: the session timed out on its second question and leaks that
\* one goroutine; the goroutine of the first question has ended.
C18_Witness ==
    /\ pc = "done"
    /\ timedOut
    /\ tasks[1].st = "done"
    /\ Unfinished = {2}

\* C19: once the select has taken the timer case, a goroutine that has not
\* ended never ends, and one that is at its send stays there unchanged.
C19_AbandonedNeverEnds ==
    [][ (pc = "case_timer" \/ timedOut) =>
            \A i \in 1..MaxProblems :
                /\ (tasks[i].st \in {"scan", "send"} => tasks'[i].st \in {"scan", "send"})
                /\ (tasks[i].st = "send" => tasks'[i] = tasks[i]) ]_vars

\* C19 witness: after the timeout the input was closed, the read of the
\* abandoned goroutine returned its error, and at the end of time the
\* goroutine is still at its send.
C19_Witness ==
    /\ timedOut
    /\ pc = "done"
    /\ clock = MaxTime
    /\ stdinEOF
    /\ plan[1].at > limit
    /\ tasks[cur].st = "send"
    /\ tasks[cur].err

====
